---- MODULE Spec2Model ----
(***************************************************************************)
(* Model of the context menu of mapbox-gl-contextmenu: the menu container  *)
(* (components/ContextMenu), its entries (ContextMenuItem and              *)
(* ContextMenuSubmenu with its hover timers) and the map adapter           *)
(* (components/MapboxContextMenu).                                         *)
(*                                                                         *)
(* Objects are named by strings.  A top-level menu is one of Tops.  A      *)
(* ContextMenuSubmenu entry s owns a child ContextMenu (its _submenu       *)
(* field); that child menu is named by the same string s, so menuEl["S1"]  *)
(* is the element of S1._submenu while liEl["S1"] is S1's own <li>.        *)
(* Elements of the page are <<"body">>, <<"menu", m>>, <<"button", e>> and *)
(* <<"li", e>> (the <li> of a separator or of a label).                    *)
(*                                                                         *)
(* ContextMenu.show adds the class styles.visible of a CSS module, while   *)
(* ContextMenuSubmenu tests and removes the literal class "visible".       *)
(* Whether the two are the same name is decided by the build, so it is a   *)
(* choice made in Init (scopedCss).                                        *)
(*                                                                         *)
(* Spec is the interaction model (show, hide, pointer, keyboard, timers).  *)
(* SpecList is a page that composes one menu freely with addItem,          *)
(* insertItem and removeItem; SpecPosition is show(x, y) with the          *)
(* coordinates and ContextMenu._positionInViewport.                        *)
(* SpecAttach is addTo(map, target) with every form of target on hosts     *)
(* with and without addInteraction; SpecHover is a menu that appears       *)
(* under the pointer, over any of its entries.                             *)
(* SpecSiblings is a menu of two sibling Submenus used with a pointer.     *)
(* SpecDisabled is a page that disables entries of a menu in use.          *)
(* SpecEvented is the event emitter (util/evented) of an entry.            *)
(***************************************************************************)
EXTENDS Integers, Sequences, FiniteSets, TLC

\* ------------------------------------------------------------------ bounds
\* Number of different host trigger events (each carries its own point,
\* lngLat and features).
NumEvents == 2
\* Most hide-delay callbacks of one Submenu that are pending at a time.
MaxHideTimers == 1
\* Most keydown listeners registered on the document at a time.
MaxDocListeners == 5
\* Most entries of one menu's entry list while the page composes it freely.
MaxItems == 3
\* Largest width or height of a container or of a popup, in pixels.
MaxSize == 3
\* Most handlers registered for one event type of an Evented at a time.
MaxHandlers == 3

\* ---------------------------------------------------------------- universe
Tops == {"A", "B"}
Subs == {"S1", "S2", "S3"}
ActionItems == {"I1", "C1", "I2", "I3", "I4"}
Separators == {"P1"}
Labels == {"L1"}
Entries == ActionItems \cup Subs \cup Separators \cup Labels
Menus == Tops \cup Subs
None == "none"
\* The forms of the target of addTo(map, target): none, a layer id, a list of
\* layer ids, or a descriptor object ({featuresetId, importId} or {layerId}).
TargetForms == {"absent", "layer", "layers", "descriptor"}
\* No container and no popup are measured.
NoBox == [W |-> 0, H |-> 0, w |-> 0, h |-> 0]
Body == <<"body">>

\* The entries each menu is built from, in the order the page adds them.
Home ==
  [m \in Menus |->
     CASE m = "A"  -> <<"I1", "S1", "S2">>
       [] m = "S1" -> <<"C1">>
       [] m = "S2" -> <<"S3">>
       [] m = "B"  -> <<"I2", "P1", "I3", "I4", "L1">>
       [] OTHER    -> <<>>]

Keys ==
  {"ArrowDown", "ArrowUp", "ArrowRight", "ArrowLeft", "Enter", " ", "Escape"}

VARIABLES
  scopedCss,        \* build: styles.visible is a scoped name, not "visible"
  env,              \* what the page and its user do: "pointer", "keyboard",
                    \* "edit", "list", "disable"
  tops,             \* the top-level menus the page uses
  universe,         \* the entries the page uses
  openMenu,         \* MapboxContextMenu._openMenu
  map,              \* MapboxContextMenu._map (attached or not)
  target,           \* MapboxContextMenu._target, by its form
  subscription,     \* how the contextmenu handler is registered on the host
  hostApi,          \* the host map has addInteraction (Mapbox GL JS v3.9.0+)
  evented,          \* one Evented: Evented._eventHandlers[type] and a fire in progress
  items,            \* ContextMenu._items
  menuEl,           \* ContextMenu._menuEl exists
  visible,          \* _menuEl carries the class styles.visible
  inlineHidden,     \* _menuEl carries the inline style visibility: hidden
  focusedIndex,     \* ContextMenu._focusedIndex
  onEscapeLeft,     \* ContextMenu._onEscapeLeft is set
  liEl,             \* entry's _liEl/_buttonEl exist
  parentEl,         \* the menu whose element holds the entry's <li>
  children,         \* the entries whose <li> a menu element holds, in DOM order
  currentCtx,       \* entry's _currentCtx (0 = null, else the trigger event)
  focused,          \* entry's button carries the class styles.focused
  disabled,         \* entry's _disabled
  isPinned,         \* ContextMenuSubmenu._isPinned
  hoverTimeout,     \* the show-delay timer of _scheduleOpen is pending
  hideTimers,       \* number of pending hide-delay callbacks
  submenuContainer, \* ContextMenuSubmenu._submenuContainer is set
  hover,            \* the element under the pointer
  activeElement,    \* document.activeElement
  doc,              \* keydown listeners on the document, in registration order
  lastTrigger,      \* the trigger event of each top-level menu's latest show
  fired,            \* activation events fired by the latest step
  cleared,          \* show-delay timers the latest step cleared while pending
  box,              \* client size of the container, offset size of the popup
  anchor,           \* the point (x, y) the latest show was asked to open at
  placed            \* style.left and style.top of the menu element

vars ==
  <<scopedCss, env, tops, universe, openMenu, map, items, menuEl, visible,
    inlineHidden, focusedIndex, onEscapeLeft, liEl, parentEl, currentCtx,
    focused, disabled, isPinned, hoverTimeout, hideTimers, submenuContainer,
    hover, activeElement, doc, lastTrigger, fired, cleared, children, box,
    anchor, placed, target, subscription, hostApi, evented>>

\* The program state as one record, so that a method is an operator from
\* state to state and a handler is the composition of the methods it calls.
State ==
  [scopedCss |-> scopedCss, env |-> env, tops |-> tops, universe |-> universe,
   openMenu |-> openMenu, map |-> map, target |-> target,
   subscription |-> subscription, items |-> items, menuEl |-> menuEl,
   visible |-> visible, inlineHidden |-> inlineHidden,
   focusedIndex |-> focusedIndex, onEscapeLeft |-> onEscapeLeft,
   liEl |-> liEl, parentEl |-> parentEl, children |-> children,
   currentCtx |-> currentCtx,
   focused |-> focused, disabled |-> disabled, isPinned |-> isPinned,
   hoverTimeout |-> hoverTimeout, hideTimers |-> hideTimers,
   submenuContainer |-> submenuContainer, hover |-> hover,
   activeElement |-> activeElement,
   doc |-> [i \in 1..Len(doc) |->
              [m |-> doc[i].m, k |-> doc[i].k, cur |-> doc[i].cur, id |-> i]],
   nextId |-> Len(doc) + 1,
   lastTrigger |-> lastTrigger, fired |-> <<>>, cleared |-> {}]

\* The menu and entry fields of the next state are those of s.
CommitMenus(s) ==
  /\ scopedCss' = s.scopedCss
  /\ env' = s.env
  /\ tops' = s.tops
  /\ universe' = s.universe
  /\ openMenu' = s.openMenu
  /\ map' = s.map
  /\ target' = s.target
  /\ subscription' = s.subscription
  /\ items' = s.items
  /\ menuEl' = s.menuEl
  /\ visible' = s.visible
  /\ inlineHidden' = s.inlineHidden
  /\ focusedIndex' = s.focusedIndex
  /\ onEscapeLeft' = s.onEscapeLeft
  /\ liEl' = s.liEl
  /\ parentEl' = s.parentEl
  /\ children' = s.children
  /\ currentCtx' = s.currentCtx
  /\ focused' = s.focused
  /\ disabled' = s.disabled
  /\ isPinned' = s.isPinned
  /\ hoverTimeout' = s.hoverTimeout
  /\ hideTimers' = s.hideTimers
  /\ submenuContainer' = s.submenuContainer
  /\ hover' = s.hover
  /\ activeElement' = s.activeElement
  /\ doc' = [i \in 1..Len(s.doc) |->
               [m |-> s.doc[i].m, k |-> s.doc[i].k, cur |-> s.doc[i].cur]]
  /\ lastTrigger' = s.lastTrigger
  /\ fired' = s.fired
  /\ cleared' = s.cleared
  /\ Len(s.doc) <= MaxDocListeners
  /\ \A x \in Subs : s.hideTimers[x] <= MaxHideTimers

\* A step of the interaction model: it does not depend on coordinates, which
\* are modelled by SpecPosition alone.
Commit(s) == CommitMenus(s) /\ UNCHANGED <<box, anchor, placed, hostApi, evented>>


\* ----------------------------------------------------------------- helpers
\* Array.prototype.indexOf / findIndex, 0-based, -1 when absent.
IndexOf(seq, e) ==
  IF \E i \in 1..Len(seq) : seq[i] = e
  THEN (CHOOSE i \in 1..Len(seq) : seq[i] = e /\ \A j \in 1..(i - 1) : seq[j] # e) - 1
  ELSE -1

\* Array.prototype.splice(index, 1).
RemoveAt(seq, index) ==
  [i \in 1..(Len(seq) - 1) |-> IF i <= index THEN seq[i] ELSE seq[i + 1]]

\* Node.contains(document.activeElement) for a menu element.
Contains(s, m, el) ==
  \/ el = <<"menu", m>>
  \/ el[1] \in {"button", "li"} /\ s.parentEl[el[2]] = m

\* The menu is painted: it has the class the stylesheet shows it with and no
\* inline style hides it.
Displayed(s, m) == s.menuEl[m] /\ s.visible[m] /\ ~s.inlineHidden[m]

\* Element.matches(":hover").
Hovered(s, el) ==
  IF el[1] = "menu"
  THEN Displayed(s, el[2]) /\ Contains(s, el[2], s.hover)
  ELSE s.hover = el /\ s.parentEl[el[2]] # None /\ Displayed(s, s.parentEl[el[2]])

\* document.addEventListener("keydown", h) with this._handlers[k] = h.
AddDocListener(s, m, k) ==
  IF "keyboard" \notin s.env THEN s ELSE
  [s EXCEPT
     !.doc = Append([i \in 1..Len(s.doc) |->
                       IF s.doc[i].m = m /\ s.doc[i].k = k
                       THEN [s.doc[i] EXCEPT !.cur = FALSE] ELSE s.doc[i]],
                    [m |-> m, k |-> k, cur |-> TRUE, id |-> s.nextId]),
     !.nextId = s.nextId + 1]

HasHandler(s, m, k) ==
  \E i \in 1..Len(s.doc) : s.doc[i].m = m /\ s.doc[i].k = k /\ s.doc[i].cur

\* document.removeEventListener("keydown", this._handlers[k]).
RemoveDocListener(s, m, k) ==
  [s EXCEPT !.doc = SelectSeq(s.doc, LAMBDA l : ~(l.m = m /\ l.k = k /\ l.cur))]

\* this._handlers[k] = null without removing the listener from the document.
ForgetDocListener(s, m, k) ==
  [s EXCEPT !.doc = [i \in 1..Len(s.doc) |->
                       IF s.doc[i].m = m /\ s.doc[i].k = k
                       THEN [s.doc[i] EXCEPT !.cur = FALSE] ELSE s.doc[i]]]

\* An element that leaves the page is no longer focused nor under the pointer.
Unfocus(s, el) ==
  [s EXCEPT !.activeElement = IF s.activeElement = el THEN Body ELSE @,
            !.hover = IF s.hover = el THEN Body ELSE @]

\* util/focusable.isFocusable: the entry has focus() and blur().
isFocusable(e) == e \in ActionItems \cup Subs

\* Evented.listens("click"): the page registered a click handler on the item.
listens(e) == e \in ActionItems

\* ---------------------------------------------- ContextMenuItem (entries)
ItemBlur(s, e) ==
  IF s.liEl[e] THEN [s EXCEPT !.focused[e] = FALSE] ELSE s

\* Evented.fire("click", ...) with the fields of this._currentCtx.
Fire(s, e) ==
  [s EXCEPT !.fired = Append(@, [item |-> e, ctx |-> s.currentCtx[e]])]

\* The click listener of _addEventListeners.
ItemClickHandler(s, e) ==
  IF ~s.disabled[e] /\ s.currentCtx[e] # 0 THEN Fire(s, e) ELSE s

\* Element.remove() and a parent change of the <li> of e: it leaves the
\* children of the element that holds it.
Detach(s, e) ==
  [s EXCEPT !.children = [m \in Menus |-> SelectSeq(@[m], LAMBDA x : x # e)]]

ItemRemove(s, e) ==
  Unfocus([Detach(s, e) EXCEPT !.liEl[e] = FALSE, !.parentEl[e] = None,
                              !.currentCtx[e] = 0, !.focused[e] = FALSE],
          <<"button", e>>)

\* ------------------------------------------------------------ ContextMenu
RECURSIVE MenuHide(_, _), Blur(_, _), CloseSubmenu(_, _), BlurSubmenus(_, _, _)

\* ContextMenuSubmenu._closeSubmenu.
CloseSubmenu(s, e) ==
  [MenuHide(s, e) EXCEPT !.isPinned[e] = FALSE]

\* blur() of an entry: ContextMenuItem.blur, or ContextMenuSubmenu.blur which
\* also closes the submenu.
Blur(s, e) ==
  IF e \in Subs THEN CloseSubmenu(ItemBlur(s, e), e) ELSE ItemBlur(s, e)

\* The forEach at the end of hide(): blur every ContextMenuSubmenu entry.
BlurSubmenus(s, seq, i) ==
  IF i > Len(seq) THEN s
  ELSE BlurSubmenus(IF seq[i] \in Subs THEN Blur(s, seq[i]) ELSE s, seq, i + 1)

\* ContextMenu.hide.
MenuHide(s, m) ==
  IF ~s.menuEl[m] THEN s
  ELSE
    LET s1 == [RemoveDocListener(s, m, "keydown") EXCEPT !.visible[m] = FALSE]
        fi == s1.focusedIndex[m]
        s2 == IF fi # -1
              THEN [(IF fi < Len(s1.items[m]) /\ isFocusable(s1.items[m][fi + 1])
                     THEN Blur(s1, s1.items[m][fi + 1]) ELSE s1)
                    EXCEPT !.focusedIndex[m] = -1]
              ELSE s1
    IN BlurSubmenus(s2, s2.items[m], 1)

\* MapboxContextMenu.hide.
MapboxHide(s, t) ==
  LET s1 == MenuHide(s, t)
      s2 == IF s1.openMenu = t THEN [s1 EXCEPT !.openMenu = None] ELSE s1
  IN RemoveDocListener(s2, t, "escape")

\* this.hide() as dispatched on the object: a top-level menu is a
\* MapboxContextMenu, a Submenu's child menu a plain ContextMenu.
Hide(s, m) == IF m \in Tops THEN MapboxHide(s, m) ELSE MenuHide(s, m)

\* The focusin listener of _setupUI, for a focus event whose target is the
\* button of entry e.
FocusInHandler(s, m, e) ==
  LET index == IndexOf(s.items[m], e)
      fi == s.focusedIndex[m]
  IN IF index # -1 /\ index # fi
     THEN [(IF fi # -1 /\ fi < Len(s.items[m]) /\ isFocusable(s.items[m][fi + 1])
            THEN Blur(s, s.items[m][fi + 1]) ELSE s)
           EXCEPT !.focusedIndex[m] = index]
     ELSE s

\* HTMLElement.focus() on the button of e: the button becomes the active
\* element and a focusin event bubbles to the menu element that holds it.
ButtonFocus(s, e) ==
  LET m == s.parentEl[e] IN
  IF m = None \/ ~s.menuEl[m] \/ s.inlineHidden[m]
     \/ s.activeElement = <<"button", e>>
  THEN s
  ELSE FocusInHandler([s EXCEPT !.activeElement = <<"button", e>>], m, e)

\* ContextMenuItem.focus (ContextMenuSubmenu.focus only calls it).
ItemFocus(s, e) ==
  IF s.liEl[e] /\ ~s.disabled[e]
  THEN ButtonFocus([s EXCEPT !.focused[e] = TRUE], e)
  ELSE s

\* _isFocusable without the test of the disabled flag.
IsFocusableItemIgnoringDisabled(s, e) == isFocusable(e)

\* ContextMenu._isFocusable.
IsFocusableItem(s, e) == isFocusable(e) /\ ~s.disabled[e]

\* ContextMenu._focusItem.
FocusItem(s, m, index) ==
  LET fi == s.focusedIndex[m]
      s1 == IF fi # -1 /\ fi < Len(s.items[m]) /\ isFocusable(s.items[m][fi + 1])
            THEN Blur(s, s.items[m][fi + 1]) ELSE s
  IN IF index >= 0 /\ index < Len(s1.items[m])
     THEN LET s2 == [s1 EXCEPT !.focusedIndex[m] = index]
              item == s2.items[m][index + 1]
          IN IF isFocusable(item) THEN ItemFocus(s2, item) ELSE s2
     ELSE [s1 EXCEPT !.focusedIndex[m] = -1]

\* ContextMenu.focusFirstItem.
FocusFirstItem(s, m) ==
  LET ok == {i \in 1..Len(s.items[m]) : IsFocusableItem(s, s.items[m][i])}
  IN IF ok = {} THEN s
     ELSE FocusItem(s, m, (CHOOSE i \in ok : \A j \in ok : i <= j) - 1)

\* ContextMenu._setupUI: a new menu element, appended to the container.
SetupUI(s, m) ==
  [s EXCEPT !.menuEl[m] = TRUE, !.visible[m] = FALSE, !.inlineHidden[m] = FALSE]

\* render() of an entry: ContextMenuItem.render (a Separator or a Label keeps
\* no context), and for a Submenu also the first-time attachment of its child
\* menu to the map container.
Render(s, e, m, ctx) ==
  LET s0 == IF s.liEl[e] /\ s.parentEl[e] = m THEN s
            ELSE [Detach(s, e) EXCEPT !.children[m] = Append(@, e)]
      s1 == [s0 EXCEPT !.currentCtx[e] = IF isFocusable(e) THEN ctx ELSE @,
                       !.liEl[e] = TRUE, !.parentEl[e] = m]
  IN IF e \in Subs /\ ~s1.submenuContainer[e]
     THEN SetupUI([s1 EXCEPT !.submenuContainer[e] = TRUE], e)
     ELSE s1

RECURSIVE RenderAll(_, _, _, _)
RenderAll(s, m, ctx, i) ==
  IF i > Len(s.items[m]) THEN s
  ELSE RenderAll(Render(s, s.items[m][i], m, ctx), m, ctx, i + 1)

\* ContextMenu._focusItemUnderMouse.
FocusItemUnderMouse(s, m) ==
  IF ~s.menuEl[m] THEN s
  ELSE IF s.hover[1] = "button" /\ Hovered(s, s.hover) /\ s.parentEl[s.hover[2]] = m
       THEN LET index == IndexOf(s.items[m], s.hover[2])
            IN IF index # -1 THEN FocusItem(s, m, index) ELSE s
       ELSE s

\* ContextMenu.show.
MenuShow(s, m, ctx) ==
  IF ~s.menuEl[m] THEN s
  ELSE
    LET s1 == RenderAll(s, m, ctx, 1)
        s2 == [s1 EXCEPT !.visible[m] = TRUE, !.focusedIndex[m] = -1]
        s3 == AddDocListener(s2, m, "keydown")
        s4 == IF s3.inlineHidden[m] THEN s3
              ELSE [s3 EXCEPT !.activeElement = <<"menu", m>>]
    IN FocusItemUnderMouse(s4, m)

\* ----------------------------------------------------- ContextMenuSubmenu
\* _closeOtherSubmenus: every other <menu> of the container that carries the
\* class "visible" loses it and is hidden by inline styles.  The class that
\* show() adds is styles.visible; the two are the same name only in a build
\* that does not scope class names.
CloseOtherSubmenus(s, e) ==
  IF ~s.submenuContainer[e] THEN s
  ELSE
    LET hit == {m \in Menus : m # e /\ s.menuEl[m] /\ s.visible[m] /\ ~s.scopedCss}
    IN [s EXCEPT !.visible = [m \in Menus |-> IF m \in hit THEN FALSE ELSE @[m]],
                 !.inlineHidden = [m \in Menus |-> IF m \in hit THEN TRUE ELSE @[m]]]

\* _openSubmenu.
OpenSubmenu(s, e) ==
  IF ~s.liEl[e] \/ ~s.submenuContainer[e] \/ s.disabled[e] \/ s.currentCtx[e] = 0
  THEN s
  ELSE IF \E i \in 1..Len(s.items[e]) : s.items[e][i] \in Subs
  THEN s
  ELSE
    LET s1 == CloseOtherSubmenus(s, e)
        s2 == MenuShow(s1, e, s1.currentCtx[e])
    IN IF s2.menuEl[e] THEN MenuShow(s2, e, s2.currentCtx[e]) ELSE s2

\* openAndFocusSubmenu without the assignment of _isPinned.
OpenAndFocusSubmenuUnpinned(s, e) ==
  LET s1 == OpenSubmenu(s, e)
      s2 == IF s1.liEl[e] THEN [s1 EXCEPT !.focused[e] = FALSE] ELSE s1
      s3 == [s2 EXCEPT !.onEscapeLeft[e] = TRUE]
  IN FocusFirstItem(s3, e)

\* openAndFocusSubmenu.
OpenAndFocusSubmenu(s, e) ==
  LET s1 == [OpenSubmenu(s, e) EXCEPT !.isPinned[e] = TRUE]
      s2 == IF s1.liEl[e] THEN [s1 EXCEPT !.focused[e] = FALSE] ELSE s1
      s3 == [s2 EXCEPT !.onEscapeLeft[e] = TRUE]
  IN FocusFirstItem(s3, e)

\* The callback openAndFocusSubmenu installs as the child menu's onEscapeLeft.
EscapeLeftCallback(s, e) == ItemFocus(CloseSubmenu(s, e), e)

\* _cancelOpen.
CancelOpen(s, e) ==
  IF s.hoverTimeout[e]
  THEN [s EXCEPT !.hoverTimeout[e] = FALSE, !.cleared = @ \cup {e}]
  ELSE s

\* _scheduleOpen (the mouseenter listener).
ScheduleOpen(s, e) == [CancelOpen(s, e) EXCEPT !.hoverTimeout[e] = TRUE]

\* The mouseleave listener.
MouseLeave(s, e) ==
  LET s1 == CancelOpen(s, e)
  IN IF s1.isPinned[e] THEN s1 ELSE [s1 EXCEPT !.hideTimers[e] = @ + 1]

\* _isHovering.
IsHovering(s, e) ==
  IF ~s.liEl[e] THEN FALSE
  ELSE IF ~s.menuEl[e] THEN FALSE
  ELSE Hovered(s, <<"button", e>>) \/ Hovered(s, <<"menu", e>>)

\* The hide-delay callback without the test of _isHovering().
HideTimerCallbackIgnoringHover(s, e) ==
  IF ~s.isPinned[e] THEN CloseSubmenu(s, e) ELSE s

\* The hide-delay callback without the test of _isPinned.
HideTimerCallbackIgnoringPinned(s, e) ==
  IF ~IsHovering(s, e) THEN CloseSubmenu(s, e) ELSE s

\* The callback of the hide-delay setTimeout.
HideTimerCallback(s, e) ==
  IF ~IsHovering(s, e) /\ ~s.isPinned[e] THEN CloseSubmenu(s, e) ELSE s

\* The click listener of a Submenu's button (stopPropagation: the click does
\* not reach the parent menu's listener).
SubmenuClickHandler(s, e) ==
  IF s.menuEl[e] /\ s.visible[e] /\ ~s.scopedCss
  THEN CloseSubmenu(s, e)
  ELSE [OpenSubmenu(s, e) EXCEPT !.isPinned[e] = TRUE]

\* A click event on the button of e: the entry's own listener first, then,
\* for a ContextMenuItem, the click listener of the menu element it is in.
ButtonClick(s, e) ==
  IF e \in Subs THEN SubmenuClickHandler(s, e)
  ELSE LET s1 == ItemClickHandler(s, e)
           m == s1.parentEl[e]
       IN IF m # None /\ s1.menuEl[m] THEN Hide(s1, m) ELSE s1

\* ContextMenuItem.click.
ItemClick(s, e) ==
  IF s.liEl[e] /\ ~s.disabled[e] THEN ButtonClick(s, e) ELSE s

RECURSIVE MenuRemove(_, _), EntryRemove(_, _), RemoveItems(_, _, _)

\* remove() of an entry without the call of _cancelOpen().
EntryRemoveKeepingTimer(s, e) ==
  IF e \in Subs
  THEN LET s2 == CloseSubmenu(s, e)
           s3 == MenuRemove(s2, e)
           s4 == ItemRemove(s3, e)
       IN [s4 EXCEPT !.submenuContainer[e] = FALSE]
  ELSE ItemRemove(s, e)

\* remove() of an entry: ContextMenuItem.remove or ContextMenuSubmenu.remove.
EntryRemove(s, e) ==
  IF e \in Subs
  THEN LET s1 == CancelOpen(s, e)
           s2 == CloseSubmenu(s1, e)
           s3 == MenuRemove(s2, e)
           s4 == ItemRemove(s3, e)
       IN [s4 EXCEPT !.submenuContainer[e] = FALSE]
  ELSE ItemRemove(s, e)

\* ContextMenu._removeItems: the forEach over the entries.
RemoveItems(s, seq, i) ==
  IF i > Len(seq) THEN s ELSE RemoveItems(EntryRemove(s, seq[i]), seq, i + 1)

\* ContextMenu.remove with ContextMenu._removeEventListeners: the keydown
\* listener is removed from the document; every other handler, the Escape
\* handler of a MapboxContextMenu included, is removed from the menu element.
MenuRemove(s, m) ==
  LET s1 == [RemoveItems(s, s.items[m], 1) EXCEPT !.items[m] = <<>>]
      s2 == IF s1.menuEl[m]
            THEN ForgetDocListener(RemoveDocListener(s1, m, "keydown"), m, "escape")
            ELSE s1
  IN Unfocus([s2 EXCEPT !.menuEl[m] = FALSE, !.visible[m] = FALSE,
                        !.inlineHidden[m] = FALSE],
             <<"menu", m>>)

\* ------------------------------------------------------ MapboxContextMenu
\* MapboxContextMenu.show without the hide() of the menu that is open.
MapboxShowKeepingOther(s, t, ctx) ==
  LET s2 == [MenuShow(s, t, ctx) EXCEPT !.openMenu = t]
  IN IF ~HasHandler(s2, t, "escape") THEN AddDocListener(s2, t, "escape") ELSE s2

\* MapboxContextMenu.show.
MapboxShow(s, t, ctx) ==
  LET s1 == IF s.openMenu # None /\ s.openMenu # t
            THEN MapboxHide(s, s.openMenu) ELSE s
      s2 == [MenuShow(s1, t, ctx) EXCEPT !.openMenu = t]
  IN IF ~HasHandler(s2, t, "escape") THEN AddDocListener(s2, t, "escape") ELSE s2

\* MapboxContextMenu._isTargetDescriptor.
IsTargetDescriptor(tg) == tg = "descriptor"

\* _addMapEventListeners: the registration of the contextmenu handler (the
\* move and mousedown handlers are registered on the map in every case).
AddMapEventListeners(s, t) ==
  [s EXCEPT !.subscription[t] =
     IF IsTargetDescriptor(s.target[t]) /\ hostApi THEN "interaction"
     ELSE IF s.target[t] # "absent" /\ ~IsTargetDescriptor(s.target[t]) THEN "layer"
     ELSE IF s.target[t] = "absent" THEN "map"
     ELSE @]

\* _removeMapEventListeners.
RemoveMapEventListeners(s, t) ==
  IF ~s.map[t] THEN s ELSE [s EXCEPT !.subscription[t] = None]

\* MapboxContextMenu.remove.
MapboxRemove(s, t) ==
  IF ~s.map[t] THEN s
  ELSE LET s0 == RemoveMapEventListeners(s, t)
           s1 == MenuRemove(s0, t)
           s2 == IF s1.openMenu = t THEN [s1 EXCEPT !.openMenu = None] ELSE s1
       IN [s2 EXCEPT !.map[t] = FALSE, !.target[t] = "absent"]

\* MapboxContextMenu.addTo(map, target).
MapboxAddToTarget(s, t, tg) ==
  AddMapEventListeners(
    SetupUI([s EXCEPT !.map[t] = TRUE, !.target[t] = tg], t), t)

\* MapboxContextMenu.addTo (no target: the whole map).
MapboxAddTo(s, t) == MapboxAddToTarget(s, t, "absent")

\* ------------------------------------------------ ContextMenu._handleKeydown
\* The while loop of the ArrowDown case: the first index from newIndex on
\* whose entry is focusable, or the length when there is none.
RECURSIVE ScanDown(_, _, _), ScanUp(_, _, _)
ScanDown(s, m, newIndex) ==
  IF newIndex < Len(s.items[m])
  THEN IF IsFocusableItem(s, s.items[m][newIndex + 1]) THEN newIndex
       ELSE ScanDown(s, m, newIndex + 1)
  ELSE newIndex

\* The while loop of the ArrowUp case (an index past the end holds no entry).
ScanUp(s, m, newIndex) ==
  IF newIndex >= 0
  THEN IF newIndex < Len(s.items[m]) /\ IsFocusableItem(s, s.items[m][newIndex + 1])
       THEN newIndex
       ELSE ScanUp(s, m, newIndex - 1)
  ELSE newIndex

\* The index the ArrowDown case leaves in newIndex.
ArrowDownIndex(s, m, fi) ==
  LET newIndex == ScanDown(s, m, IF fi = -1 THEN 0 ELSE fi + 1)
  IN IF newIndex >= Len(s.items[m]) THEN fi ELSE newIndex

\* The index the ArrowUp case leaves in newIndex.
ArrowUpIndex(s, m, fi) ==
  LET newIndex == ScanUp(s, m, fi - 1)
  IN IF newIndex < 0 THEN fi ELSE newIndex

HandleKeydown(s, m, key) ==
  IF ~s.menuEl[m] \/ ~s.visible[m] THEN s
  ELSE IF ~Contains(s, m, s.activeElement) THEN s
  ELSE IF Len(s.items[m]) = 0 THEN s
  ELSE
    LET fi == s.focusedIndex[m]
        item == IF fi >= 0 /\ fi < Len(s.items[m]) THEN s.items[m][fi + 1] ELSE None
    IN CASE key = "ArrowDown" ->
              LET newIndex == ArrowDownIndex(s, m, fi)
              IN IF newIndex # fi THEN FocusItem(s, m, newIndex) ELSE s
         [] key = "ArrowUp" ->
              LET newIndex == ArrowUpIndex(s, m, fi)
              IN IF newIndex # fi THEN FocusItem(s, m, newIndex) ELSE s
         [] key = "ArrowRight" ->
              IF fi # -1 /\ item \in Subs THEN OpenAndFocusSubmenu(s, item) ELSE s
         [] key \in {"Enter", " "} ->
              IF fi # -1
              THEN IF item \in Subs THEN OpenAndFocusSubmenu(s, item)
                   ELSE IF item # None /\ isFocusable(item) /\ listens(item)
                        THEN Hide(ItemClick(s, item), m)
                        ELSE s
              ELSE s
         [] key = "ArrowLeft" ->
              IF s.onEscapeLeft[m] THEN EscapeLeftCallback(s, m) ELSE s
         [] key = "Escape" -> Hide(s, m)
         [] OTHER -> s

\* The listeners of the document without the Escape listener of show.
ListenerWithoutEscape(s, l, key) ==
  IF l.k = "keydown" THEN HandleKeydown(s, l.m, key) ELSE s

\* One keydown listener of the document handling a key.
Listener(s, l, key) ==
  IF l.k = "keydown" THEN HandleKeydown(s, l.m, key)
  ELSE IF key = "Escape" THEN MapboxHide(s, l.m) ELSE s

\* Dispatch of a keydown event to the listeners registered on the document
\* when the dispatch starts, in registration order; a listener removed by an
\* earlier one is not called.
RECURSIVE Dispatch(_, _, _, _)
Dispatch(s, snap, i, key) ==
  IF i > Len(snap) THEN s
  ELSE Dispatch(IF \E j \in 1..Len(s.doc) : s.doc[j].id = snap[i].id
                THEN Listener(s, snap[i], key) ELSE s,
                snap, i + 1, key)

\* ------------------------------------------------------------------ actions
Range(seq) == {seq[i] : i \in 1..Len(seq)}

\* The menus the page has constructed.
Built == tops \cup (Subs \cap universe)

\* The page calls menu.addItem(e) or submenu.addItem(e).  The page adds an
\* entry to its own menu only, while it is in no menu, and in the order of
\* Home.
AddItem(m, e) ==
  /\ "edit" \in env
  /\ m \in Built /\ e \in universe /\ e \in Range(Home[m])
  /\ \A x \in Menus : e \notin Range(items[x])
  /\ \A i \in 1..Len(items[m]) : IndexOf(Home[m], items[m][i]) < IndexOf(Home[m], e)
  /\ Commit([State EXCEPT !.items[m] = Append(@, e)])

\* removeItem removing every reference to the entry.
RemoveItemOpEveryReference(s, m, e) ==
  IF IndexOf(s.items[m], e) # -1
  THEN EntryRemove([s EXCEPT !.items[m] = SelectSeq(@, LAMBDA x : x # e)], e)
  ELSE s

\* ContextMenu.removeItem (ContextMenuSubmenu.removeItem forwards to it).
RemoveItemOp(s, m, e) ==
  LET index == IndexOf(s.items[m], e)
  IN IF index # -1
     THEN EntryRemove([s EXCEPT !.items[m] = RemoveAt(@, index)], e)
     ELSE s

RemoveItem(m, e) ==
  /\ "edit" \in env
  /\ m \in Built /\ e \in universe /\ e \in Range(Home[m])
  /\ Commit(RemoveItemOp(State, m, e))

\* The page calls menu.addTo(map) on a menu that is not attached.
AddTo(t) ==
  /\ t \in tops /\ ~map[t]
  /\ Commit(MapboxAddTo(State, t))

\* The page calls menu.remove().
Remove(t) ==
  /\ t \in tops
  /\ Commit(MapboxRemove(State, t))

\* The map fires "contextmenu" with trigger event ev: the listener of
\* _addMapEventListeners calls show.  The menu may appear under the pointer:
\* under is the element the pointer is over once the menu is shown.
Trigger(t, ev, under) ==
  /\ t \in tops /\ map[t] /\ subscription[t] # None
  /\ \/ under = hover
     \/ /\ "pointer" \in env /\ under[1] = "button"
        /\ under[2] \in Range(items[t]) \cap (ActionItems \cup Subs)
     \/ /\ "pointer" \in env /\ under[1] = "li"
        /\ under[2] \in Range(items[t]) \cap (Separators \cup Labels)
  /\ Commit([MapboxShow([State EXCEPT !.hover = under], t, ev)
             EXCEPT !.lastTrigger[t] = ev])

\* The map fires "move" or "mousedown": the listener of every attached menu
\* calls hide.
RECURSIVE HideAll(_, _)
HideAll(s, ts) ==
  IF ts = {} THEN s
  ELSE LET t == CHOOSE x \in ts : TRUE IN HideAll(MapboxHide(s, t), ts \ {t})

MapMoveOrMousedown ==
  /\ \E t \in tops : map[t]
  /\ Commit(HideAll(State, {t \in tops : map[t]}))

\* The elements the pointer can be over: the page outside the menus, the
\* button of an entry of a displayed menu, or a displayed child menu.
PointerTargets ==
  {Body}
    \cup {<<"button", e>> : e \in {x \in ActionItems \cup Subs :
             liEl[x] /\ parentEl[x] # None /\ Displayed(State, parentEl[x])}}
    \cup {<<"menu", m>> : m \in {x \in Subs : Displayed(State, x)}}

\* The pointer moves from one element to another: mouseleave on the button
\* it leaves, then mouseenter on the button it enters (Submenu buttons have
\* listeners for both).
PointerMove(to) ==
  /\ "pointer" \in env
  /\ to \in PointerTargets /\ to # hover
  /\ LET s0 == State
         s1 == IF hover[1] = "button" /\ hover[2] \in Subs /\ liEl[hover[2]]
               THEN MouseLeave(s0, hover[2]) ELSE s0
         s2 == [s1 EXCEPT !.hover = to]
         s3 == IF to[1] = "button" /\ to[2] \in Subs
               THEN ScheduleOpen(s2, to[2]) ELSE s2
     IN Commit(s3)

\* The user clicks (or taps) the button of entry e, which is on display.
Click(e) ==
  /\ e \in ActionItems \cup Subs /\ liEl[e] /\ ~disabled[e]
  /\ parentEl[e] # None /\ Displayed(State, parentEl[e])
  /\ Commit(ButtonClick(State, e))

\* A click on a displayed menu outside its buttons.
ClickMenu(m) ==
  /\ m \in Menus /\ Displayed(State, m)
  /\ Commit(Hide(State, m))

\* The show-delay timer of Submenu e fires.
ShowTimer(e) ==
  /\ e \in Subs /\ hoverTimeout[e]
  /\ Commit(OpenSubmenu([State EXCEPT !.hoverTimeout[e] = FALSE], e))

\* A hide-delay timer of Submenu e fires.
HideTimer(e) ==
  /\ e \in Subs /\ hideTimers[e] > 0
  /\ Commit(HideTimerCallback([State EXCEPT !.hideTimers[e] = @ - 1], e))

\* The user presses a key.
KeyPress(key) ==
  /\ "keyboard" \in env
  /\ doc # <<>>
  /\ Commit(Dispatch(State, State.doc, 1, key))

\* An Evented with no handler registered and no fire in progress.
NoHandlers ==
  [handlers |-> <<>>, firing |-> FALSE, copy |-> <<>>, pos |-> 1,
   atStart |-> <<>>, invoked |-> <<>>]

InitBase(T, U, D, E) ==
  /\ evented = NoHandlers
  /\ scopedCss \in BOOLEAN
  /\ env = E
  /\ tops = T
  /\ universe = U
  /\ openMenu = None
  /\ map = [t \in Tops |-> FALSE]
  /\ target = [t \in Tops |-> "absent"]
  /\ subscription = [t \in Tops |-> None]
  /\ items = [m \in Menus |->
                IF m \in T \cup U THEN SelectSeq(Home[m], LAMBDA e : e \in U)
                ELSE <<>>]
  /\ menuEl = [m \in Menus |-> FALSE]
  /\ visible = [m \in Menus |-> FALSE]
  /\ inlineHidden = [m \in Menus |-> FALSE]
  /\ focusedIndex = [m \in Menus |-> -1]
  /\ onEscapeLeft = [m \in Menus |-> FALSE]
  /\ liEl = [e \in Entries |-> FALSE]
  /\ parentEl = [e \in Entries |-> None]
  /\ children = [m \in Menus |-> <<>>]
  /\ currentCtx = [e \in Entries |-> 0]
  /\ focused = [e \in Entries |-> FALSE]
  /\ disabled = [e \in Entries |-> e \in D]
  /\ isPinned = [e \in Subs |-> FALSE]
  /\ hoverTimeout = [e \in Subs |-> FALSE]
  /\ hideTimers = [e \in Subs |-> 0]
  /\ submenuContainer = [e \in Subs |-> FALSE]
  /\ hover = Body
  /\ activeElement = Body
  /\ doc = <<>>
  /\ lastTrigger = [t \in Tops |-> 0]
  /\ fired = <<>>
  /\ cleared = {}
  /\ anchor = [x |-> 0, y |-> 0]
  /\ placed = [left |-> 0, top |-> 0]

InitWith(T, U, D, E) == InitBase(T, U, D, E) /\ box = NoBox /\ hostApi = TRUE

\* The pages modelled: each has one map, builds its menus before the first
\* event, and is used in one way (env): with a pointer that hovers, from the
\* keyboard, with menus the page edits while in use, or by clicks alone.
Init ==
  \* an item and a submenu; the pointer hovers, the page edits the menus
  \/ InitWith({"A"}, {"I1", "S1", "C1"}, {}, {"pointer", "edit"})
  \* the same menu used from the keyboard
  \/ InitWith({"A"}, {"I1", "S1", "C1"}, {}, {"keyboard"})
  \* two menus attached to the same map
  \/ InitWith({"A", "B"}, {"I1", "I2"}, {}, {"pointer"})
  \/ InitWith({"A", "B"}, {"I1"}, {}, {"keyboard"})
  \/ InitWith({"A", "B"}, {"I1", "S1", "C1", "I2"}, {}, {})
  \* a submenu that holds a submenu
  \/ InitWith({"A"}, {"S2", "S3"}, {}, {"pointer", "keyboard"})
  \* two sibling submenus, opened by clicks
  \/ InitWith({"A"}, {"S1", "S2"}, {}, {})
  \* an item, a separator, a disabled item, an item and a label
  \/ InitWith({"B"}, {"I2", "P1", "I3", "I4", "L1"}, {"I3"}, {"keyboard"})

Next ==
  \/ \E m \in Menus, e \in Entries : AddItem(m, e)
  \/ \E m \in Menus, e \in Entries : RemoveItem(m, e)
  \/ \E t \in Tops : AddTo(t)
  \/ \E t \in Tops : Remove(t)
  \/ \E t \in Tops, ev \in 1..NumEvents :
       \E under \in {hover} \cup {<<"button", e>> : e \in Entries} :
         Trigger(t, ev, under)
  \/ MapMoveOrMousedown
  \/ \E to \in PointerTargets : PointerMove(to)
  \/ \E e \in Entries : Click(e)
  \/ \E m \in Menus : ClickMenu(m)
  \/ \E e \in Subs : ShowTimer(e)
  \/ \E e \in Subs : HideTimer(e)
  \/ \E key \in Keys : KeyPress(key)

Spec == Init /\ [][Next]_vars

\* ------------------------------------------------- composing the entry list
\* Array.prototype.splice(index, 0, e): a negative index counts from the end,
\* and the start is clamped to 0..length.
SpliceInsert(seq, index, e) ==
  LET len == Len(seq)
      start == IF index < 0
               THEN (IF len + index < 0 THEN 0 ELSE len + index)
               ELSE (IF index > len THEN len ELSE index)
  IN SubSeq(seq, 1, start) \o <<e>> \o SubSeq(seq, start + 1, len)

\* The indexes a page passes to insertItem.
Indexes == (0 - (MaxItems + 1))..(MaxItems + 1)

\* The page calls menu.addItem(e) with any of its entries, one that is in
\* the menu already included.
AddAnyItem(m, e) ==
  /\ "list" \in env
  /\ m \in tops /\ e \in universe /\ Len(items[m]) < MaxItems
  /\ Commit([State EXCEPT !.items[m] = Append(@, e)])

\* The page calls menu.insertItem(index, e).
InsertItem(m, index, e) ==
  /\ "list" \in env
  /\ m \in tops /\ e \in universe /\ Len(items[m]) < MaxItems
  /\ Commit([State EXCEPT !.items[m] = SpliceInsert(@, index, e)])

\* The page calls menu.removeItem(e) with any of its entries.
RemoveAnyItem(m, e) ==
  /\ "list" \in env
  /\ m \in tops /\ e \in universe
  /\ Commit(RemoveItemOp(State, m, e))

\* A page that constructs one menu with no entry and then composes it from
\* two items and a separator while it shows and hides it.
InitList == InitWith({"A"}, {"I2", "I3", "P1"}, {}, {"list"})

NextList ==
  \/ \E m \in Tops, e \in Entries : AddAnyItem(m, e)
  \/ \E m \in Tops, index \in Indexes, e \in Entries : InsertItem(m, index, e)
  \/ \E m \in Tops, e \in Entries : RemoveAnyItem(m, e)
  \/ \E t \in Tops : AddTo(t)
  \/ \E t \in Tops, ev \in 1..NumEvents : Trigger(t, ev, hover)
  \/ MapMoveOrMousedown

SpecList == InitList /\ [][NextList]_vars

\* ------------------------------------------------- a menu under the pointer
\* The elements of the entries the pointer can be over: the button of an
\* item or of a submenu, the <li> of a separator or of a label (they have no
\* button).
EntryElements ==
  {<<"button", e>> : e \in ActionItems \cup Subs}
    \cup {<<"li", e>> : e \in Separators \cup Labels}

\* A page with two menus, one of them with an item, a separator, a disabled
\* item, an item and a label, used with a pointer: a menu appears under the
\* pointer wherever the user asks for it.
InitHover ==
  InitWith({"A", "B"}, {"I1", "I2", "P1", "I3", "I4", "L1"}, {"I3"}, {"pointer"})

NextHover ==
  \/ \E t \in Tops : AddTo(t)
  \/ \E t \in Tops, ev \in 1..NumEvents :
       \E under \in {hover} \cup EntryElements : Trigger(t, ev, under)
  \/ MapMoveOrMousedown
  \/ \E to \in PointerTargets : PointerMove(to)
  \/ \E e \in Entries : Click(e)
  \/ \E m \in Menus : ClickMenu(m)

SpecHover == InitHover /\ [][NextHover]_vars

\* ------------------------------------------------------- sibling submenus
\* A page with one menu of two sibling Submenus, used with a pointer that
\* hovers and clicks.
InitSiblings == InitWith({"A"}, {"S1", "S2"}, {}, {"pointer"})

NextSiblings ==
  \/ \E t \in Tops : AddTo(t)
  \/ \E t \in Tops, ev \in 1..NumEvents : Trigger(t, ev, hover)
  \/ MapMoveOrMousedown
  \/ \E to \in PointerTargets : PointerMove(to)
  \/ \E e \in Entries : Click(e)
  \/ \E e \in Subs : ShowTimer(e)
  \/ \E e \in Subs : HideTimer(e)

SpecSiblings == InitSiblings /\ [][NextSiblings]_vars

\* ------------------------------------------------- the disabled flag
\* The disabled setter of an entry: the flag and the button's disabled
\* attribute.  A focused button that becomes disabled keeps the focus or
\* loses it to the page, depending on the browser.
SetDisabled(e, value, keeps) ==
  /\ "disable" \in env
  /\ e \in universe \cap (ActionItems \cup Subs) /\ disabled[e] # value
  /\ Commit([State EXCEPT
               !.disabled[e] = value,
               !.activeElement =
                 IF value /\ ~keeps /\ liEl[e] /\ @ = <<"button", e>>
                 THEN Body ELSE @])

\* A page with an item and a submenu, used from the keyboard, that enables
\* and disables its entries while the menu is in use.
InitDisabled == InitWith({"A"}, {"I1", "S1", "C1"}, {}, {"keyboard", "disable"})

NextDisabled ==
  \/ \E t \in Tops : AddTo(t)
  \/ \E t \in Tops, ev \in 1..NumEvents : Trigger(t, ev, hover)
  \/ MapMoveOrMousedown
  \/ \E key \in Keys : KeyPress(key)
  \/ \E e \in Entries, value \in BOOLEAN, keeps \in BOOLEAN :
       SetDisabled(e, value, keeps)

SpecDisabled == InitDisabled /\ [][NextDisabled]_vars

\* ------------------------------------------------------------ util/evented
\* The handlers a page registers (the same function may be registered more
\* than once).
HandlerIds == {"h1", "h2"}

\* Evented.on: push.
EventedOn(handlers, h) == Append(handlers, h)

\* Evented.off: indexOf and splice(index, 1) of the first registration.
EventedOff(handlers, h) ==
  LET index == IndexOf(handlers, h)
  IN IF index # -1 THEN RemoveAt(handlers, index) ELSE handlers

\* Evented.listens.
EventedListens(handlers) == Len(handlers) > 0

\* The loop of fire over the live array, without slice().
IteratedLive(copy, live) == live

\* The array the loop of fire runs over: handlers.slice(), the copy made
\* when fire starts.
Iterated(copy, live) == copy

\* What a handler does when it is called: nothing to the Evented, or on or
\* off of a handler for the type being fired.
Bodies ==
  {<<"none", "h1">>} \cup {<<op, h>> : op \in {"on", "off"}, h \in HandlerIds}

\* The menus are not touched by the Evented.
Untouched ==
  UNCHANGED <<scopedCss, env, tops, universe, openMenu, map, items, menuEl,
              visible, inlineHidden, focusedIndex, onEscapeLeft, liEl,
              parentEl, currentCtx, focused, disabled, isPinned, hoverTimeout,
              hideTimers, submenuContainer, hover, activeElement, doc,
              lastTrigger, fired, cleared, children, box, anchor, placed,
              target, subscription, hostApi>>

\* The page calls on(type, h) outside a fire.
OnCall(h) ==
  /\ ~evented.firing /\ Len(evented.handlers) < MaxHandlers
  /\ evented' = [evented EXCEPT !.handlers = EventedOn(@, h)]
  /\ Untouched

\* The page calls off(type, h) outside a fire.
OffCall(h) ==
  /\ ~evented.firing
  /\ evented' = [evented EXCEPT !.handlers = EventedOff(@, h)]
  /\ Untouched

\* fire(type) starts: the copy of the handlers is made.
FireStart ==
  /\ ~evented.firing
  /\ evented' = [evented EXCEPT !.firing = TRUE, !.copy = evented.handlers,
                                !.pos = 1, !.atStart = evented.handlers,
                                !.invoked = <<>>]
  /\ Untouched

\* One turn of the loop of fire: the next handler is called and does body.
Invoke(body) ==
  LET list == Iterated(evented.copy, evented.handlers) IN
  /\ evented.firing /\ evented.pos <= Len(list)
  /\ body[1] = "on" => Len(evented.handlers) < MaxHandlers
  /\ evented' =
       [evented EXCEPT
          !.invoked = Append(@, list[evented.pos]),
          !.pos = @ + 1,
          !.handlers = CASE body[1] = "on" -> EventedOn(@, body[2])
                         [] body[1] = "off" -> EventedOff(@, body[2])
                         [] OTHER -> @]
  /\ Untouched

\* The loop of fire ends and fire returns.
FireEnd ==
  /\ evented.firing
  /\ evented.pos > Len(Iterated(evented.copy, evented.handlers))
  /\ evented' = [evented EXCEPT !.firing = FALSE]
  /\ Untouched

\* An item with its click handlers, registered and unregistered by the page
\* and by the handlers themselves.
InitEvented == InitWith({"A"}, {"I1"}, {}, {})

NextEvented ==
  \/ \E h \in HandlerIds : OnCall(h)
  \/ \E h \in HandlerIds : OffCall(h)
  \/ FireStart
  \/ \E body \in Bodies : Invoke(body)
  \/ FireEnd

SpecEvented == InitEvented /\ [][NextEvented]_vars

\* -------------------------------------------------------------- positioner
\* _positionInViewport without the two shifts off the trailing edges.
PositionInViewportWithoutShift(s, m, x, y) ==
  IF ~s.menuEl[m] THEN [left |-> x, top |-> y]
  ELSE [left |-> IF x < 0 THEN 0 ELSE x, top |-> IF y < 0 THEN 0 ELSE y]

\* _positionInViewport with the clamp to 0 made before the two shifts.
PositionInViewportClampFirst(s, m, x, y) ==
  IF ~s.menuEl[m] THEN [left |-> x, top |-> y]
  ELSE
    LET left == IF x < 0 THEN 0 ELSE x
        top == IF y < 0 THEN 0 ELSE y
    IN [left |-> IF left + box.w > box.W THEN box.W - box.w ELSE left,
        top |-> IF top + box.h > box.H THEN box.H - box.h ELSE top]

\* ContextMenu._positionInViewport, with the clientWidth/clientHeight of the
\* container and the offsetWidth/offsetHeight of the menu element in box.
PositionInViewport(s, m, x, y) ==
  IF ~s.menuEl[m] THEN [left |-> x, top |-> y]
  ELSE
    LET containerWidth == box.W
        containerHeight == box.H
        menuWidth == box.w
        menuHeight == box.h
        left == IF x + menuWidth > containerWidth
                THEN containerWidth - menuWidth ELSE x
        top == IF y + menuHeight > containerHeight
               THEN containerHeight - menuHeight ELSE y
    IN [left |-> IF left < 0 THEN 0 ELSE left,
        top |-> IF top < 0 THEN 0 ELSE top]

\* The sizes a container and a popup can have, and the points a show can be
\* asked to open at (outside the container included).
Boxes == [W : 1..MaxSize, H : 1..MaxSize, w : 1..MaxSize, h : 1..MaxSize]
Coordinates == (0 - 1)..(MaxSize + 1)

\* MapboxContextMenu.show(x, y, ctx) with the coordinates: the position that
\* _positionInViewport returns becomes style.left and style.top.
ShowAt(t, x, y) ==
  /\ t \in tops
  /\ CommitMenus([MapboxShow(State, t, 1) EXCEPT !.lastTrigger[t] = 1])
  /\ box' = box /\ hostApi' = hostApi /\ evented' = evented
  /\ anchor' = IF menuEl[t] THEN [x |-> x, y |-> y] ELSE anchor
  /\ placed' = IF menuEl[t] THEN PositionInViewport(State, t, x, y) ELSE placed

\* A page with one menu of one item, in a container and with a popup of any
\* of the sizes.
InitPosition ==
  InitBase({"A"}, {"I1"}, {}, {}) /\ box \in Boxes /\ hostApi = TRUE

NextPosition ==
  \/ \E t \in Tops : AddTo(t)
  \/ \E t \in Tops, x \in Coordinates, y \in Coordinates : ShowAt(t, x, y)

SpecPosition == InitPosition /\ [][NextPosition]_vars

\* ----------------------------------------------------- attaching to a host
\* The page calls menu.addTo(map, target) on a menu that is not attached.
AddToTarget(t, tg) ==
  /\ t \in tops /\ ~map[t]
  /\ Commit(MapboxAddToTarget(State, t, tg))

\* show(x, y, ctx) and hide() called on the menu object by code other than
\* the map listeners (in JavaScript the methods are not hidden).
CallShow(t, ev) ==
  /\ t \in tops
  /\ Commit(MapboxShow(State, t, ev))

CallHide(t) ==
  /\ t \in tops
  /\ Commit(MapboxHide(State, t))

\* A page with two menus of one item on a host map with or without the
\* interaction API.
InitAttach ==
  InitBase({"A", "B"}, {"I1", "I2"}, {}, {}) /\ box = NoBox /\ hostApi \in BOOLEAN

NextAttach ==
  \/ \E t \in Tops, tg \in TargetForms : AddToTarget(t, tg)
  \/ \E t \in Tops : Remove(t)
  \/ \E t \in Tops, ev \in 1..NumEvents : Trigger(t, ev, hover)
  \/ MapMoveOrMousedown
  \/ \E t \in Tops, ev \in 1..NumEvents : CallShow(t, ev)
  \/ \E t \in Tops : CallHide(t)

SpecAttach == InitAttach /\ [][NextAttach]_vars

\* ------------------------------------------------------------------- claims
\* The top-level menu an entry is shown in: the menu that holds its node, or
\* the menu that holds the node of the Submenu whose child menu holds it.
TopOf(e) ==
  IF parentEl[e] \in Tops THEN parentEl[e]
  ELSE IF parentEl[e] \in Subs THEN parentEl[parentEl[e]]
  ELSE None

\* The menu an entry is built into, and the top-level menu above it.
HomeMenu(e) ==
  IF \E m \in Menus : e \in Range(Home[m])
  THEN CHOOSE m \in Menus : e \in Range(Home[m]) ELSE None

HomeTop(e) ==
  IF HomeMenu(e) \in Subs THEN HomeMenu(HomeMenu(e)) ELSE HomeMenu(e)

\* The Submenu's own entries include a Submenu.
Nested(e) == \E i \in 1..Len(items[e]) : items[e][i] \in Subs

\* The Submenu is open: its child menu carries the class styles.visible.
Open(e) == menuEl[e] /\ visible[e]

\* C1: in every reachable state at most one top-level menu is visible, and
\* the menu that is visible is the holder of the open-menu singleton.
C1_OneTopLevelVisible ==
  /\ \A a, b \in Tops : a # b => ~(menuEl[a] /\ visible[a] /\ menuEl[b] /\ visible[b])
  /\ \A a \in Tops : menuEl[a] /\ visible[a] => openMenu = a

\* C1 witness: B is visible and holds the singleton, while A, which was shown
\* before (its item is rendered with a trigger event), is hidden.
C1_Witness ==
  /\ menuEl["B"] /\ visible["B"] /\ openMenu = "B"
  /\ menuEl["A"] /\ ~visible["A"] /\ liEl["I1"] /\ currentCtx["I1"] # 0

\* C2: a Submenu's child menu is visible only if the menu that holds the
\* Submenu is visible (stated for the build that scopes class names, in
\* which opening a Submenu leaves the class of its parent alone).
C2_NoOrphanedSubmenu ==
  scopedCss =>
    \A e \in Subs : Open(e) =>
      parentEl[e] # None /\ menuEl[parentEl[e]] /\ visible[parentEl[e]]

\* C3: at most one Submenu among the entries of the same menu is open.
C3_SubmenuExclusivity ==
  \A a, b \in Subs :
    (a # b /\ parentEl[a] # None /\ parentEl[a] = parentEl[b]) => ~(Open(a) /\ Open(b))

\* C4: a click on an enabled, displayed ActionItem fires exactly one activation
\* event on it, and the event carries the trigger event of the latest show of
\* the top-level menu.
C4_ClickFiresLatestTrigger ==
  [][\A e \in ActionItems :
       (Click(e) /\ TopOf(e) \in Tops)
         => fired' = <<[item |-> e, ctx |-> lastTrigger[TopOf(e)]]>>]_vars

\* C5: after a click on an enabled, displayed ActionItem the top-level menu
\* is not visible, no Submenu of it is open and the open-menu singleton is
\* released.
C5_ClickHidesWholeMenu ==
  [][\A e \in ActionItems :
       (Click(e) /\ TopOf(e) \in Tops)
         => /\ ~visible'[TopOf(e)]
            /\ \A x \in Subs : parentEl[x] = TopOf(e) => ~visible'[x]
            /\ openMenu' = None]_vars

\* The nearest index after fi whose entry is an enabled ActionItem or Submenu,
\* or fi when there is none.
NearestAfter(m, fi) ==
  LET ok == {i \in (fi + 1)..(Len(items[m]) - 1) :
               items[m][i + 1] \in ActionItems \cup Subs /\ ~disabled[items[m][i + 1]]}
  IN IF ok = {} THEN fi ELSE CHOOSE i \in ok : \A j \in ok : i <= j

\* The nearest index before fi of such an entry, or fi when there is none.
NearestBefore(m, fi) ==
  LET ok == {i \in 0..(fi - 1) :
               items[m][i + 1] \in ActionItems \cup Subs /\ ~disabled[items[m][i + 1]]}
  IN IF ok = {} THEN fi ELSE CHOOSE i \in ok : \A j \in ok : i >= j

\* C6: for every menu that handles keys and every focus index of its entry
\* list, the ArrowDown (ArrowUp) handler leaves the focus index at the nearest
\* enabled ActionItem or Submenu after (before) it, and leaves it unchanged
\* when there is none.
C6_FocusTraversal ==
  \A m \in Menus :
    (menuEl[m] /\ visible[m] /\ Contains(State, m, activeElement)) =>
      \A fi \in -1..(Len(items[m]) - 1) :
        LET s == [State EXCEPT !.focusedIndex[m] = fi]
        IN /\ HandleKeydown(s, m, "ArrowDown").focusedIndex[m] = NearestAfter(m, fi)
           /\ HandleKeydown(s, m, "ArrowUp").focusedIndex[m] = NearestBefore(m, fi)

\* C6 witness: in the menu [enabled, Separator, disabled, enabled, Label],
\* used from the keyboard alone, the focus is on the fourth entry.
C6_Witness ==
  /\ "pointer" \notin env
  /\ items["B"] = <<"I2", "P1", "I3", "I4", "L1">> /\ disabled["I3"]
  /\ menuEl["B"] /\ visible["B"] /\ focusedIndex["B"] = 3
  /\ activeElement = <<"button", "I4">> /\ focused["I4"] /\ ~focused["I2"]

\* C7: an attempt to open a Submenu whose entries include a Submenu, by the
\* show-delay timer, a click on its node or ArrowRight/Enter on it, leaves it
\* closed and its pinned flag, its child menu's escape-left callback and
\* focus index and the parent menu's state as they were.
C7_NestedRefusalChangesNothing ==
  [][\A e \in Subs :
       (/\ Nested(e) /\ liEl[e] /\ parentEl[e] # None
        /\ \/ Click(e)
           \/ ShowTimer(e)
           \/ /\ focusedIndex[parentEl[e]] = IndexOf(items[parentEl[e]], e)
              /\ KeyPress("ArrowRight") \/ KeyPress("Enter"))
         => /\ ~visible'[e]
            /\ isPinned'[e] = isPinned[e]
            /\ onEscapeLeft'[e] = onEscapeLeft[e]
            /\ focusedIndex'[e] = focusedIndex[e]
            /\ visible'[parentEl[e]] = visible[parentEl[e]]
            /\ focusedIndex'[parentEl[e]] = focusedIndex[parentEl[e]]]_vars

\* C8: when a hide-delay callback of an open, unpinned Submenu runs while the
\* pointer is over the Submenu's node or over its child menu, the Submenu is
\* still open after the callback.
C8_HideDelayCancelledByReentry ==
  \A e \in Subs :
    (Open(e) /\ ~isPinned[e] /\ hideTimers[e] > 0 /\ IsHovering(State, e)) =>
      LET s == HideTimerCallback([State EXCEPT !.hideTimers[e] = @ - 1], e)
      IN s.menuEl[e] /\ s.visible[e]

\* C8 witness: S1 is open and unpinned, the pointer has moved from its node
\* to its child menu, and no hide-delay callback is left to run.
C8_Witness ==
  /\ Open("S1") /\ ~isPinned["S1"] /\ hideTimers["S1"] = 0
  /\ hover = <<"menu", "S1">> /\ Displayed(State, "S1")

\* C9: while a menu is detached by remove(), none of its Submenus has a
\* show-delay timer pending or a visible child menu.
C9_RemoveLeavesNoSubmenu ==
  \A e \in Subs :
    (HomeTop(e) # None /\ ~map[HomeTop(e)]) =>
      ~hoverTimeout[e] /\ ~visible[e] /\ ~liEl[e]

\* C9 witness: the latest step detached A and cleared the pending show-delay
\* timer of its Submenu S1.
C9_Witness ==
  ~map["A"] /\ "S1" \in cleared /\ ~hoverTimeout["S1"] /\ ~visible["S1"]

\* C10: remove() of a Submenu, by removeItem or by remove() of its menu,
\* leaves the Submenu closed and unpinned, with no show-delay or hide-delay
\* timer pending and with its child menu torn down.
C10_SubmenuRemoveLeavesNothing ==
  [][\A e \in Subs :
       (\/ \E m \in Menus : RemoveItem(m, e) /\ e \in Range(items[m])
        \/ \E t \in Tops : Remove(t) /\ map[t] /\ e \in Range(items[t]))
         => /\ ~visible'[e] /\ ~isPinned'[e]
            /\ ~hoverTimeout'[e] /\ hideTimers'[e] = 0
            /\ ~menuEl'[e] /\ items'[e] = <<>>]_vars

\* The list without the entry.
Without(seq, e) == SelectSeq(seq, LAMBDA x : x # e)

\* No entry is in the list twice.
NoRepeat(seq) == \A i, j \in 1..Len(seq) : i # j => seq[i] # seq[j]

\* C11: addItem of an entry that is not in the entry list appends it; addItem
\* of an entry that is in the list leaves the list holding it once, with the
\* other entries in their order; removeItem leaves the list without the entry
\* and with the other entries in their order.
C11_ListIsInsertionOrder ==
  [][\A m \in Tops, e \in Entries :
       /\ AddAnyItem(m, e) =>
            IF e \in Range(items[m])
            THEN items'[m] \in {items[m], Append(Without(items[m], e), e)}
            ELSE items'[m] = Append(items[m], e)
       /\ RemoveAnyItem(m, e) => items'[m] = Without(items[m], e)]_vars

\* C12: after every show of a menu whose entry list holds no entry twice, the
\* nodes inside the menu element are in the order of the entry list.
C12_DisplayOrderIsEntryOrder ==
  [][\A t \in Tops, ev \in 1..NumEvents :
       (Trigger(t, ev, hover) /\ NoRepeat(items[t]))
         => children'[t] = items'[t]]_vars

\* C13: insertItem(index, e) with an index greater than the length of the
\* entry list, or negative, appends e; with an index from 0 to the length e
\* ends up at that index and the other entries keep their order.
C13_InsertItemIndex ==
  [][\A m \in Tops, index \in Indexes, e \in Entries :
       InsertItem(m, index, e) =>
         IF index > Len(items[m]) \/ index < 0
         THEN items'[m] = Append(items[m], e)
         ELSE /\ items'[m][index + 1] = e
              /\ RemoveAt(items'[m], index) = items[m]]_vars

\* C20: for a popup smaller than its container, the position of a shown menu
\* is the anchor when the popup fits right of and below it, its left is
\* W - w when x + w > W, and its top is H - h when y + h > H.
C20_TrailingEdgeRule ==
  \A t \in tops :
    (menuEl[t] /\ visible[t] /\ box.w < box.W /\ box.h < box.H) =>
      /\ (anchor.x + box.w <= box.W /\ anchor.y + box.h <= box.H)
            => placed = [left |-> anchor.x, top |-> anchor.y]
      /\ anchor.x + box.w > box.W => placed.left = box.W - box.w
      /\ anchor.y + box.h > box.H => placed.top = box.H - box.h

\* C20, for anchors inside the container: the same with the position equal
\* to the anchor only when, besides, x >= 0 and y >= 0.
C20_TrailingEdgeRuleFromInside ==
  \A t \in tops :
    (menuEl[t] /\ visible[t] /\ box.w < box.W /\ box.h < box.H) =>
      /\ (/\ anchor.x >= 0 /\ anchor.y >= 0
          /\ anchor.x + box.w <= box.W /\ anchor.y + box.h <= box.H)
            => placed = [left |-> anchor.x, top |-> anchor.y]
      /\ anchor.x + box.w > box.W => placed.left = box.W - box.w
      /\ anchor.y + box.h > box.H => placed.top = box.H - box.h

\* C20 witness: a popup of width 2 asked to open at x = 2 in a container of
\* width 3 is shown at left 1, its top unchanged.
C20_Witness ==
  /\ menuEl["A"] /\ visible["A"]
  /\ box = [W |-> 3, H |-> 3, w |-> 2, h |-> 2]
  /\ anchor = [x |-> 2, y |-> 1]
  /\ placed = [left |-> 1, top |-> 1]

\* The state the listeners of the document leave when the user presses key.
AfterKey(key) == Dispatch(State, State.doc, 1, key)

\* The keyboard focus is in menu t or in the child menu of an open Submenu
\* of t.
FocusWithin(t) ==
  \/ Contains(State, t, activeElement)
  \/ \E e \in Subs :
       e \in Range(items[t]) /\ Open(e) /\ Contains(State, e, activeElement)

\* C14: Escape pressed while a top-level menu is visible and the keyboard
\* focus is in it or in the child menu of one of its open Submenus leaves the
\* top-level menu not visible, each of its Submenus closed and unpinned, and
\* the open-menu singleton released.
C14_EscapeClosesHierarchy ==
  \A t \in Tops :
    ("keyboard" \in env /\ menuEl[t] /\ visible[t] /\ FocusWithin(t)) =>
      LET s == AfterKey("Escape")
      IN /\ ~s.visible[t]
         /\ \A e \in Subs : e \in Range(items[t]) => ~s.visible[e] /\ ~s.isPinned[e]
         /\ s.openMenu = None

\* C14 witness: A is visible with its Submenu S1 open and pinned and the
\* focus on the item of S1's child menu, and Escape closes both.
C14_Witness ==
  /\ "keyboard" \in env /\ menuEl["A"] /\ visible["A"] /\ openMenu = "A"
  /\ Open("S1") /\ isPinned["S1"] /\ activeElement = <<"button", "C1">>
  /\ LET s == AfterKey("Escape")
     IN ~s.visible["A"] /\ ~s.visible["S1"] /\ ~s.isPinned["S1"]
        /\ s.openMenu = None

\* C15: ArrowLeft pressed while the keyboard focus is inside the child menu
\* of an open Submenu closes the Submenu and moves the focus to the Submenu's
\* own button; ArrowLeft pressed while the focus is in a top-level menu
\* changes nothing (stated for the build that scopes class names).
C15_ArrowLeftReturnsToParent ==
  ("keyboard" \in env /\ scopedCss) =>
    /\ \A e \in Subs :
         (Open(e) /\ parentEl[e] \in Tops /\ Contains(State, e, activeElement)) =>
           LET s == AfterKey("ArrowLeft")
           IN ~s.visible[e] /\ s.activeElement = <<"button", e>>
    /\ \A t \in Tops :
         (menuEl[t] /\ visible[t] /\ Contains(State, t, activeElement)) =>
           AfterKey("ArrowLeft") = State

\* The entry that has the keyboard focus in menu m, which handles keys: the
\* entry at the focus index, whose button is the active element.
FocusedEntry(m) ==
  IF /\ menuEl[m] /\ visible[m]
     /\ focusedIndex[m] >= 0 /\ focusedIndex[m] < Len(items[m])
     /\ activeElement = <<"button", items[m][focusedIndex[m] + 1]>>
     /\ parentEl[items[m][focusedIndex[m] + 1]] = m
  THEN items[m][focusedIndex[m] + 1]
  ELSE None

\* The first enabled ActionItem or Submenu of the entries of a Submenu, or
\* None.
FirstEnabled(e) ==
  LET ok == {i \in 1..Len(items[e]) :
               items[e][i] \in ActionItems \cup Subs /\ ~disabled[items[e][i]]}
  IN IF ok = {} THEN None ELSE items[e][CHOOSE i \in ok : \A j \in ok : i <= j]

\* C16: Enter or Space on the focused enabled ActionItem (it has a click
\* listener) fires its activation event once and leaves the top-level menu
\* and every Submenu of it not visible; Enter or Space on a focused enabled
\* Submenu without nested Submenu leaves it open with the focus on its first
\* enabled child, fires no activation event and leaves the parent menu
\* visible (stated for the build that scopes class names).
C16_EnterActivatesOrOpens ==
  ("keyboard" \in env /\ scopedCss) =>
    \A m \in Menus, key \in {"Enter", " "} :
      LET e == FocusedEntry(m)
          s == AfterKey(key)
      IN /\ (e \in ActionItems /\ ~disabled[e] /\ listens(e) /\ TopOf(e) \in Tops) =>
              /\ s.fired = <<[item |-> e, ctx |-> currentCtx[e]]>>
              /\ ~s.visible[TopOf(e)]
              /\ \A x \in Subs : parentEl[x] = TopOf(e) => ~s.visible[x]
         /\ (e \in Subs /\ ~disabled[e] /\ ~Nested(e)) =>
              /\ s.menuEl[e] /\ s.visible[e]
              /\ FirstEnabled(e) # None
                   => s.activeElement = <<"button", FirstEnabled(e)>>
              /\ s.fired = <<>>
              /\ s.visible[m]

C18_ClickTogglesSubmenu ==
  scopedCss =>
    \A e \in Subs :
      (/\ liEl[e] /\ ~disabled[e] /\ ~Nested(e)
       /\ parentEl[e] # None /\ Displayed(State, parentEl[e])) =>
        LET s == ButtonClick(State, e)
        IN /\ IF Open(e)
              THEN ~s.visible[e] /\ ~s.isPinned[e]
              ELSE s.menuEl[e] /\ s.visible[e] /\ s.isPinned[e]
           /\ s.fired = <<>>
           /\ s.visible[parentEl[e]]

\* C19: an open and pinned Submenu is still open and pinned after the
\* pointer leaves its button and after a hide-delay callback runs, and a
\* hide-delay callback closes an open Submenu only when the Submenu is not
\* pinned and neither its button nor its child menu is hovered.
C19_PinnedImmunity ==
  \A e \in Subs :
    LET left == MouseLeave(State, e)
        ran == HideTimerCallback(State, e)
    IN /\ (Open(e) /\ isPinned[e]) =>
            /\ left.visible[e] /\ left.isPinned[e]
            /\ left.hideTimers[e] = hideTimers[e]
            /\ ran.visible[e] /\ ran.isPinned[e]
       /\ (Open(e) /\ ~ran.visible[e]) =>
            /\ ~isPinned[e]
            /\ ~Hovered(State, <<"button", e>>)
            /\ ~Hovered(State, <<"menu", e>>)

\* C19 witness: S1 is open and pinned, the pointer is outside it, and a
\* hide-delay callback scheduled before S1 was pinned is still pending.
C19_Witness ==
  /\ Open("S1") /\ isPinned["S1"] /\ hideTimers["S1"] > 0
  /\ liEl["S1"] /\ ~IsHovering(State, "S1")

\* C21: for every container size, popup size and anchor, the left and the
\* top of a shown menu are not negative, and they are 0 on an axis where the
\* popup is larger than the container.
C21_LeadingEdgeRule ==
  \A t \in tops :
    (menuEl[t] /\ visible[t]) =>
      /\ placed.left >= 0 /\ placed.top >= 0
      /\ box.w > box.W => placed.left = 0
      /\ box.h > box.H => placed.top = 0

\* C21 witness: a popup of width 3 asked to open at x = 1 in a container of
\* width 2, for which the shift off the right edge gives -1, is shown at
\* left 0.
C21_Witness ==
  /\ menuEl["A"] /\ visible["A"]
  /\ box = [W |-> 2, H |-> 3, w |-> 3, h |-> 1]
  /\ anchor = [x |-> 1, y |-> 1]
  /\ placed = [left |-> 0, top |-> 1]

\* C22: remove() of an attached top-level menu leaves it with no entry, each
\* entry it had torn down (a Submenu with its child menu), no menu element,
\* focus index -1 and not the holder of the open-menu singleton; remove() of
\* a menu that is not attached changes none of the menus' and entries'
\* fields.
C22_RemoveIsFullTeardown ==
  [][\A t \in Tops :
       Remove(t) =>
         IF map[t]
         THEN /\ items'[t] = <<>> /\ ~menuEl'[t] /\ ~map'[t]
              /\ \A e \in Range(items[t]) :
                   /\ ~liEl'[e] /\ currentCtx'[e] = 0
                   /\ e \in Subs => ~menuEl'[e] /\ ~visible'[e] /\ items'[e] = <<>>
              /\ focusedIndex'[t] = -1
              /\ openMenu' # t
         ELSE UNCHANGED <<openMenu, map, items, menuEl, visible, inlineHidden,
                          focusedIndex, onEscapeLeft, liEl, parentEl, children,
                          currentCtx, focused, disabled, isPinned, hoverTimeout,
                          hideTimers, submenuContainer, activeElement, doc>>]_vars

\* C23: while a menu is attached, whatever the form of the target it was
\* attached with and whether or not the host has the interaction API, its
\* contextmenu handler is registered on the host.
C23_AttachRegistersTrigger ==
  \A t \in tops : map[t] => subscription[t] # None

\* C24: show() and hide() of a top-level menu that has no menu element
\* change nothing: neither a field of that menu, nor the visibility of
\* another menu, nor the holder of the open-menu singleton.
C24_ShowHideWithoutRootAreNoOps ==
  [][\A t \in Tops :
       (~menuEl[t] /\ (CallHide(t) \/ \E ev \in 1..NumEvents : CallShow(t, ev)))
         => UNCHANGED <<openMenu, map, items, menuEl, visible, inlineHidden,
                        focusedIndex, onEscapeLeft, liEl, parentEl, children,
                        currentCtx, focused, isPinned, activeElement, doc>>]_vars

\* C25: removeItem of an entry that is not in the menu changes nothing, the
\* entry's node, context and focus class included; removeItem of an entry
\* that is in the menu removes its first reference alone from the entry list
\* and leaves the entry without node and context.
C25_RemoveItemOfAbsentEntry ==
  \A m \in Built, e \in universe :
    LET s == RemoveItemOp(State, m, e)
        seq == items[m]
    IN IF e \notin Range(seq)
       THEN s = State
       ELSE /\ \E k \in 1..Len(seq) :
                 /\ seq[k] = e /\ \A j \in 1..(k - 1) : seq[j] # e
                 /\ s.items[m] = SubSeq(seq, 1, k - 1) \o SubSeq(seq, k + 1, Len(seq))
            /\ ~s.liEl[e] /\ s.currentCtx[e] = 0 /\ s.parentEl[e] = None
            /\ \A x \in Menus : e \notin Range(s.children[x])

\* C25 witness: the rendered item I2 is in the entry list of A twice, around
\* I3, which is rendered too; removeItem(I2) leaves <<I3, I2>> and
\* removeItem(P1), which is not in the list, leaves everything as it is.
C25_Witness ==
  /\ items["A"] = <<"I2", "I3", "I2">> /\ liEl["I2"] /\ liEl["I3"]
  /\ currentCtx["I2"] # 0
  /\ RemoveItemOp(State, "A", "I2").items["A"] = <<"I3", "I2">>
  /\ RemoveItemOp(State, "A", "P1") = State

\* C26: the focus index of every menu that has an element is -1 or an index
\* of its entry list whose entry is an enabled ActionItem or Submenu.
C26_FocusIndexIsValid ==
  \A m \in Menus :
    menuEl[m] =>
      \/ focusedIndex[m] = -1
      \/ /\ focusedIndex[m] >= 0 /\ focusedIndex[m] < Len(items[m])
         /\ items[m][focusedIndex[m] + 1] \in ActionItems \cup Subs
         /\ ~disabled[items[m][focusedIndex[m] + 1]]

\* The state after show() with trigger event ev on the attached menu t,
\* when the menu appears with the element under beneath the pointer.
AfterShow(t, ev, under) == MapboxShow([State EXCEPT !.hover = under], t, ev)

\* The elements of the entries of menu t.
ElementsOf(t) ==
  {el \in EntryElements : el[2] \in Range(items[t])}

\* C27: immediately after show() the focus index is the index of the entry
\* under the pointer when that entry is an enabled ActionItem or Submenu,
\* and -1 when the pointer is over a Separator, a Label, a disabled entry or
\* no entry.
C27_FocusIsEntryUnderPointer ==
  \A t \in tops, under \in EntryElements \cup {Body} :
    map[t] /\ (under = Body \/ under \in ElementsOf(t)) =>
      LET s == AfterShow(t, 1, under) IN
      s.focusedIndex[t] =
        IF under[1] = "button" /\ IsFocusableItem(s, under[2])
        THEN IndexOf(s.items[t], under[2]) ELSE -1

\* The state after hide() is called on menu m.
AfterHide(m) == Hide(State, m)

\* The keydown listeners of menu m that are registered on the document.
KeydownListeners(s, m) ==
  {i \in 1..Len(s.doc) : s.doc[i].m = m /\ s.doc[i].k = "keydown"}

\* C28: after hide() no keyboard listener of the menu remains installed on
\* the document, whatever sequence of show and hide came before (show while
\* visible and the two show() calls of an opening Submenu included).
C28_NoKeyboardListenerAfterHide ==
  \A m \in Menus :
    menuEl[m] => KeydownListeners(AfterHide(m), m) = {}

\* The indexes of the focusable entries of menu m.
FocusableIndexes(m) ==
  {i \in 0..(Len(items[m]) - 1) : IsFocusableItem(State, items[m][i + 1])}

\* One focusable entry further down from index fi, or fi at the boundary.
OneDown(m, fi) ==
  LET after == {i \in FocusableIndexes(m) : i > fi}
  IN IF after = {} THEN fi ELSE CHOOSE i \in after : \A j \in after : i <= j

\* One focusable entry further up from index fi, or fi at the boundary.
OneUp(m, fi) ==
  LET before == {i \in FocusableIndexes(m) : i < fi}
  IN IF before = {} THEN fi ELSE CHOOSE i \in before : \A j \in before : i >= j

\* C29: one ArrowDown (ArrowUp) press while the focus is in a visible menu
\* moves that menu's focus index by exactly one focusable entry, or not at
\* all at the boundary: the key is handled once.
C29_KeyHandledOnce ==
  \A m \in Menus :
    /\ "keyboard" \in env
    /\ Displayed(State, m) /\ Contains(State, m, activeElement)
    => /\ AfterKey("ArrowDown").focusedIndex[m] = OneDown(m, focusedIndex[m])
       /\ AfterKey("ArrowUp").focusedIndex[m] = OneUp(m, focusedIndex[m])

\* C30: a Submenu's pinned flag is true only while its child menu is
\* visible; by whatever path the child menu stops being visible, the flag
\* is false afterwards.
C30_PinnedOnlyWhileVisible ==
  \A e \in Subs : isPinned[e] => menuEl[e] /\ visible[e]

\* The Submenus whose button is in a menu on display.
OnDisplay ==
  {e \in Subs : liEl[e] /\ parentEl[e] # None /\ Displayed(State, parentEl[e])}

\* The states the three ways of opening Submenu e lead to: the show-delay
\* timer, a click on its button, ArrowRight or Enter on it.
Openings(e) ==
  {OpenSubmenu(State, e), SubmenuClickHandler(State, e),
   OpenAndFocusSubmenu(State, e)}

C32_OpenMenuSingleton ==
  /\ openMenu # None =>
       /\ openMenu \in tops /\ map[openMenu]
       /\ menuEl[openMenu] /\ visible[openMenu]
  /\ \A t \in Tops : menuEl[t] /\ visible[t] => openMenu = t

\* The entries of menu m whose button carries the focused class.
FocusedEntries(m) == {e \in Range(items[m]) : focused[e]}

\* C33: at most one entry of a menu carries the focused state, and it is the
\* entry at the menu's focus index; when the focus index is -1 no entry of
\* the menu is marked focused.
C33_FocusedEntryIsAtFocusIndex ==
  \A m \in Menus :
    menuEl[m] =>
      /\ Cardinality(FocusedEntries(m)) <= 1
      /\ \A e \in FocusedEntries(m) :
           /\ focusedIndex[m] >= 0 /\ focusedIndex[m] < Len(items[m])
           /\ items[m][focusedIndex[m] + 1] = e

C35_NoListenerAfterRemove ==
  \A t \in Tops :
    ~map[t] =>
      /\ subscription[t] = None
      /\ \A i \in 1..Len(doc) : doc[i].m # t

\* The pointer moves from one element to another.
PointerMoves == \E to \in PointerTargets : PointerMove(to)

\* C36: hover-enter on a Submenu's button starts its show-delay timer;
\* hover-leave cancels it, and only a pending timer fires, so the Submenu
\* does not open later from a hover that ended; a Submenu that the timer
\* firing opens is not pinned.  (One timer at most is pending per Submenu:
\* _hoverTimeout holds one id and _scheduleOpen cancels it before arming.)
C36_ShowDelayTimerDiscipline ==
  [][\A e \in Subs :
       /\ PointerMoves /\ hover' = <<"button", e>> => hoverTimeout'[e]
       /\ PointerMoves /\ hover = <<"button", e>> /\ liEl[e] => ~hoverTimeout'[e]
       /\ ShowTimer(e) => hoverTimeout[e] /\ ~hoverTimeout'[e]
       /\ ShowTimer(e) /\ ~visible[e] /\ visible'[e] => ~isPinned'[e]]_vars

\* The disabled entries whose button is in a menu that is visible.
DisabledOnDisplay ==
  {e \in ActionItems \cup Subs :
     /\ disabled[e] /\ liEl[e] /\ parentEl[e] # None
     /\ Displayed(State, parentEl[e])}

\* Reaching s fires no activation event and leaves the menus visible and
\* the focus indexes as they are in the current state.
SameMenuState(s) ==
  /\ s.fired = <<>>
  /\ s.visible = visible
  /\ s.focusedIndex = focusedIndex

\* C37: activating a disabled ActionItem or Submenu is ignored: click(),
\* opening it, and Enter or Space while it is the focused entry of its menu
\* fire no activation event, open no submenu and leave the menu visible
\* with the same focus.
C37_DisabledEntryIgnored ==
  \A e \in DisabledOnDisplay :
    LET m == parentEl[e] IN
    /\ SameMenuState(ItemClick(State, e))
    /\ e \in Subs => SameMenuState(OpenSubmenu(State, e))
    /\ /\ Contains(State, m, activeElement)
       /\ focusedIndex[m] = IndexOf(items[m], e)
       => SameMenuState(AfterKey("Enter")) /\ SameMenuState(AfterKey(" "))

\* C38: fire calls exactly the handlers registered when it starts, in
\* registration order and once per registration, whatever on and off calls
\* the handlers make during the dispatch, and these calls only change the
\* registrations for later fires; listens is true exactly when a
\* registration remains; off of a handler that is not registered changes
\* nothing.
C38_FireIsSnapshot ==
  /\ evented.firing =>
       /\ evented.pos <= Len(evented.atStart) + 1
       /\ evented.invoked = SubSeq(evented.atStart, 1, evented.pos - 1)
  /\ ~evented.firing => evented.invoked = evented.atStart
  /\ EventedListens(evented.handlers) <=> evented.handlers # <<>>
  /\ \A h \in HandlerIds :
       h \notin Range(evented.handlers)
         => EventedOff(evented.handlers, h) = evented.handlers

\* A fire has ended during which a handler unregistered a handler that had
\* not been called yet, and that handler was called all the same.
C38_Witness ==
  /\ ~evented.firing
  /\ evented.atStart = <<"h1", "h2">>
  /\ evented.invoked = <<"h1", "h2">>
  /\ evented.handlers = <<"h1">>
====
